---- MODULE Spec2Model ----
(***************************************************************************)
(* Length rules of garde (rules/length): the three measurement policies    *)
(* bytes, chars and simple, their per-type adapters, the Option adapter    *)
(* and the range check they all delegate to.                               *)
(*                                                                         *)
(* A value is a record [ty, wrap, data]:                                   *)
(*   ty   - the innermost Rust type ("String", "Vec<u8>", "[T; N]", ...),  *)
(*   wrap - the Option layers around it, outermost first: << >> is a bare  *)
(*          T, <<"Some">> is Some(v), <<"None">> is None : Option<T>,      *)
(*          <<"Some", "None">> is Some(None) : Option<Option<T>>,          *)
(*   data - what the innermost value stores: the UTF-8 code units of a     *)
(*          text type, the octets of a byte buffer, the scalars of a char  *)
(*          sequence, the elements (keys) of a collection.                 *)
(***************************************************************************)
EXTENDS Integers, Sequences, FiniteSets

VARIABLES value, pc, call, cursor, cnt, res, probes

vars == <<value, pc, call, cursor, cnt, res, probes>>

(***************************************************************************)
(* Bounds of the model.                                                    *)
(***************************************************************************)
MaxScalars == 2      \* longest text, in scalars
MaxElems == 5        \* longest byte buffer, char sequence or collection
MaxBound == 5        \* largest small min / max a caller passes
MaxWrap == 1         \* deepest Option nesting

\* usize::MAX on the narrowest target Rust supports (16-bit pointers).
UsizeMax == 2^16 - 1

(***************************************************************************)
(* Types the adapters are written for.                                     *)
(***************************************************************************)
TextTypes == {"String", "&String", "&str", "Cow<str>", "Rc<str>", "Arc<str>", "Box<str>"}

ByteBufTypes == {"&[u8]", "Rc<[u8]>", "Arc<[u8]>", "Box<[u8]>", "Vec<u8>", "[u8; N]"}

CharSeqTypes == {"&[char]", "Arc<[char]>", "Rc<[char]>", "Box<[char]>", "Vec<char>"}

\* sequences of an element type T other than u8 and char
SeqTypes == {"Vec<T>", "&Vec<T>", "&[T]"}

ArrayTypes == {"[T; N]", "&[T; N]"}

KeyedTypes == {"BTreeMap<K, V>", "BTreeSet<T>", "&BTreeMap<K, V>", "&BTreeSet<T>"}

HeapTypes == {"BinaryHeap<T>", "&BinaryHeap<T>"}

ListTypes == {"VecDeque<T>", "LinkedList<T>", "&VecDeque<T>", "&LinkedList<T>"}

Types == TextTypes \cup ByteBufTypes \cup CharSeqTypes \cup SeqTypes \cup ArrayTypes
           \cup KeyedTypes \cup HeapTypes \cup ListTypes

Policies == {"bytes", "chars", "simple"}

(***************************************************************************)
(* Contents.                                                               *)
(***************************************************************************)
\* 'A', U+00E9, U+20AC, U+1F600: one scalar of each encoded width
Scalars == {65, 233, 8364, 128512}

Octets == {0, 200}

SeqsUpTo(S, n) == UNION {[1..k -> S] : k \in 0..n}

\* char::encode_utf8
EncodeUtf8(c) ==
  IF c < 128 THEN <<c>>
  ELSE IF c < 2048 THEN <<192 + (c \div 64), 128 + (c % 64)>>
  ELSE IF c < 65536 THEN <<224 + (c \div 4096), 128 + ((c \div 64) % 64), 128 + (c % 64)>>
  ELSE <<240 + (c \div 262144), 128 + ((c \div 4096) % 64),
         128 + ((c \div 64) % 64), 128 + (c % 64)>>

RECURSIVE Utf8(_)
\* the storage of a str holding the scalars cs
Utf8(cs) == IF cs = << >> THEN << >> ELSE EncodeUtf8(Head(cs)) \o Utf8(Tail(cs))

\* the keys of a BTreeMap / BTreeSet are distinct and kept in order
Increasing(s) == \A i \in 1..(Len(s) - 1) : s[i] < s[i + 1]

\* a BinaryHeap is a binary max-heap laid out in a vector
HeapOrdered(s) == \A i \in 2..Len(s) : s[i \div 2] >= s[i]

DataOf(ty) ==
  IF ty \in TextTypes THEN {Utf8(cs) : cs \in SeqsUpTo(Scalars, MaxScalars)}
  ELSE IF ty \in ByteBufTypes THEN SeqsUpTo(Octets, MaxElems)
  ELSE IF ty \in CharSeqTypes THEN SeqsUpTo({65, 8364}, MaxElems)
  ELSE IF ty \in KeyedTypes THEN {s \in SeqsUpTo(1..MaxElems, MaxElems) : Increasing(s)}
  ELSE IF ty \in HeapTypes THEN {s \in SeqsUpTo({1, 2}, MaxElems) : HeapOrdered(s)}
  ELSE SeqsUpTo({1, 2}, MaxElems)

\* Option layers, outermost first: only the innermost layer can be None
Wraps == {w \in SeqsUpTo({"Some", "None"}, MaxWrap) :
            \A i \in 1..Len(w) : w[i] = "None" => i = Len(w)}

Absent(v) == v.wrap # << >> /\ v.wrap[Len(v.wrap)] = "None"

\* an absent optional stores nothing
Values == {[ty |-> ty, wrap |-> w, data |-> << >>] :
             ty \in Types, w \in {x \in Wraps : x # << >> /\ x[Len(x)] = "None"}}
          \cup UNION {{[ty |-> ty, wrap |-> w, data |-> d] :
                         w \in {x \in Wraps : x = << >> \/ x[Len(x)] = "Some"},
                         d \in DataOf(ty)} : ty \in Types}

Bounds == (0..MaxBound) \cup {UsizeMax}

(***************************************************************************)
(* Outcomes: Result<(), Error>.                                            *)
(***************************************************************************)
Ok == [ok |-> TRUE]

Err(len, min, max) == [ok |-> FALSE, len |-> len, min |-> min, max |-> max]

\* the range check every policy delegates to (length/mod.rs)
check_len(len, min, max) ==
  IF min <= len /\ len <= max THEN Ok ELSE Err(len, min, max)

(***************************************************************************)
(* bytes.rs                                                                *)
(***************************************************************************)
HasBytes(ty) == ty \in TextTypes \cup ByteBufTypes

\* HasBytes::num_bytes: self.len() of a str, a [u8] or a [u8; N]
num_bytes(v) == Len(v.data)

RECURSIVE validate_num_bytes_exclusive(_, _, _)
\* validate_num_bytes with the upper end of the range taken as exclusive
validate_num_bytes_exclusive(v, min, max) ==
  IF v.wrap = << >>
  THEN [out |-> IF min <= num_bytes(v) /\ num_bytes(v) < max
                THEN Ok ELSE Err(num_bytes(v), min, max),
        probes |-> 1]
  ELSE IF Head(v.wrap) = "Some"
       THEN validate_num_bytes_exclusive([v EXCEPT !.wrap = Tail(@)], min, max)
       ELSE [out |-> Ok, probes |-> 0]

RECURSIVE validate_num_bytes(_, _, _)
\* Bytes::validate_num_bytes, for T: HasBytes and for Option<T>
validate_num_bytes(v, min, max) ==
  IF v.wrap = << >>
  THEN [out |-> check_len(num_bytes(v), min, max), probes |-> 1]
  ELSE IF Head(v.wrap) = "Some"
       THEN validate_num_bytes([v EXCEPT !.wrap = Tail(@)], min, max)
       ELSE [out |-> Ok, probes |-> 0]

(***************************************************************************)
(* chars.rs                                                                *)
(***************************************************************************)
HasChars(ty) == ty \in TextTypes \cup CharSeqTypes

\* a UTF-8 code unit that is no continuation byte (10xxxxxx) starts a scalar
IsCharBoundary(b) == b \div 64 # 2

RECURSIVE chars_count_from_one(_)
\* chars_count with the count started at one
chars_count_from_one(bs) ==
  IF bs = << >> THEN 1
  ELSE (IF IsCharBoundary(Head(bs)) THEN 1 ELSE 0) + chars_count_from_one(Tail(bs))

RECURSIVE chars_count(_)
\* str::chars().count(): one decode pass over the code units
chars_count(bs) ==
  IF bs = << >> THEN 0
  ELSE (IF IsCharBoundary(Head(bs)) THEN 1 ELSE 0) + chars_count(Tail(bs))

\* num_chars with a text measured by its storage, as len() would
num_chars_as_len(v) == Len(v.data)

\* num_chars with a char sequence measured by the code units it encodes to
num_chars_encoded(v) ==
  IF v.ty \in TextTypes THEN chars_count(v.data) ELSE Len(Utf8(v.data))

\* HasChars::num_chars: chars().count() of a text, len() of a char sequence
num_chars(v) == IF v.ty \in TextTypes THEN chars_count(v.data) ELSE Len(v.data)

RECURSIVE validate_num_chars_swapped(_, _, _)
\* validate_num_chars with the Some arm passing (max, min) on
validate_num_chars_swapped(v, min, max) ==
  IF v.wrap = << >>
  THEN [out |-> check_len(num_chars(v), min, max), probes |-> 1]
  ELSE IF Head(v.wrap) = "Some"
       THEN validate_num_chars_swapped([v EXCEPT !.wrap = Tail(@)], max, min)
       ELSE [out |-> Ok, probes |-> 0]

RECURSIVE validate_num_chars(_, _, _)
\* Chars::validate_num_chars, for T: HasChars and for Option<T>
validate_num_chars(v, min, max) ==
  IF v.wrap = << >>
  THEN [out |-> check_len(num_chars(v), min, max), probes |-> 1]
  ELSE IF Head(v.wrap) = "Some"
       THEN validate_num_chars([v EXCEPT !.wrap = Tail(@)], min, max)
       ELSE [out |-> Ok, probes |-> 0]

(***************************************************************************)
(* simple.rs                                                               *)
(***************************************************************************)
\* u8 and char are element types like any other: Vec<u8> is a Vec<T>
HasSimpleLength(ty) ==
  ty \in TextTypes \cup SeqTypes \cup KeyedTypes \cup HeapTypes \cup ListTypes
           \cup {"Vec<u8>", "Vec<char>", "&[u8]", "&[char]"}

\* [T; N] and &[T; N] implement Simple directly
SimpleArray(ty) == ty \in ArrayTypes \cup {"[u8; N]"}

\* length with a text measured in scalars
length_as_chars(v) == IF v.ty \in TextTypes THEN num_chars(v) ELSE Len(v.data)

\* HasSimpleLength::length: num_bytes() of a text, len() of a collection
length(v) == IF v.ty \in TextTypes THEN num_bytes(v) ELSE Len(v.data)

RECURSIVE validate_length_none_empty(_, _, _)
\* validate_length with None checked as a value of length zero
validate_length_none_empty(v, min, max) ==
  IF v.wrap = << >>
  THEN IF SimpleArray(v.ty)
       THEN [out |-> check_len(Len(v.data), min, max), probes |-> 1]
       ELSE [out |-> check_len(length(v), min, max), probes |-> 1]
  ELSE IF Head(v.wrap) = "Some"
       THEN validate_length_none_empty([v EXCEPT !.wrap = Tail(@)], min, max)
       ELSE [out |-> check_len(0, min, max), probes |-> 0]

RECURSIVE validate_length_sorted(_, _, _)
\* validate_length with an array's bound put in order before the check
validate_length_sorted(v, min, max) ==
  IF v.wrap = << >>
  THEN IF SimpleArray(v.ty)
       THEN [out |-> check_len(Len(v.data), IF min <= max THEN min ELSE max,
                               IF min <= max THEN max ELSE min),
             probes |-> 1]
       ELSE [out |-> check_len(length(v), min, max), probes |-> 1]
  ELSE IF Head(v.wrap) = "Some"
       THEN validate_length_sorted([v EXCEPT !.wrap = Tail(@)], min, max)
       ELSE [out |-> Ok, probes |-> 0]

RECURSIVE validate_length(_, _, _)
\* Simple::validate_length, for T: HasSimpleLength, [T; N], &[T; N], Option<T>
validate_length(v, min, max) ==
  IF v.wrap = << >>
  THEN IF SimpleArray(v.ty)
       THEN [out |-> check_len(Len(v.data), min, max), probes |-> 1]
       ELSE [out |-> check_len(length(v), min, max), probes |-> 1]
  ELSE IF Head(v.wrap) = "Some"
       THEN validate_length([v EXCEPT !.wrap = Tail(@)], min, max)
       ELSE [out |-> Ok, probes |-> 0]

\* the trait bound of each apply: which types a policy can be called on
Implements(pol, ty) ==
  IF pol = "bytes" THEN HasBytes(ty)
  ELSE IF pol = "chars" THEN HasChars(ty)
  ELSE HasSimpleLength(ty) \/ SimpleArray(ty)

\* the validate_* method a policy's apply calls
Validate(pol, v, min, max) ==
  IF pol = "bytes" THEN validate_num_bytes(v, min, max)
  ELSE IF pol = "chars" THEN validate_num_chars(v, min, max)
  ELSE validate_length(v, min, max)

\* the count a policy's validate_* hands to the range check
MeasureOf(pol, v) ==
  IF pol = "bytes" THEN num_bytes(v)
  ELSE IF pol = "chars" THEN num_chars(v)
  ELSE IF SimpleArray(v.ty) THEN Len(v.data)
  ELSE length(v)

(***************************************************************************)
(* Callers.  Every caller borrows the one value immutably.                 *)
(***************************************************************************)
Callers == {1, 2}

NoCall == [pol |-> "none", min |-> 0, max |-> 0]

NoRes == [ok |-> FALSE, none |-> TRUE]

Idle ==
  /\ pc = [t \in Callers |-> "idle"]
  /\ call = [t \in Callers |-> NoCall]
  /\ cursor = [t \in Callers |-> << >>]
  /\ cnt = [t \in Callers |-> 0]
  /\ res = [t \in Callers |-> NoRes]
  /\ probes = [t \in Callers |-> 0]

Init == value \in Values /\ Idle

\* the caller holds the Result the call returned
Returned(t, pol, min, max, r) ==
  /\ pc' = [pc EXCEPT ![t] = "done"]
  /\ call' = [call EXCEPT ![t] = [pol |-> pol, min |-> min, max |-> max]]
  /\ res' = [res EXCEPT ![t] = r.out]
  /\ probes' = [probes EXCEPT ![t] = r.probes]
  /\ UNCHANGED <<value, cursor, cnt>>

\* bytes::apply(&value, (min, max))
ApplyBytes(t, min, max) ==
  /\ pc[t] = "idle"
  /\ HasBytes(value.ty)
  /\ Returned(t, "bytes", min, max, validate_num_bytes(value, min, max))

\* chars::apply(&value, (min, max))
ApplyChars(t, min, max) ==
  /\ pc[t] = "idle"
  /\ HasChars(value.ty)
  /\ Returned(t, "chars", min, max, validate_num_chars(value, min, max))

\* simple::apply(&value, (min, max))
ApplySimple(t, min, max) ==
  /\ pc[t] = "idle"
  /\ HasSimpleLength(value.ty) \/ SimpleArray(value.ty)
  /\ Returned(t, "simple", min, max, validate_length(value, min, max))

\* the caller drops the Result and is free to call again
Drop(t) ==
  /\ pc[t] = "done"
  /\ pc' = [pc EXCEPT ![t] = "idle"]
  /\ call' = [call EXCEPT ![t] = NoCall]
  /\ cursor' = [cursor EXCEPT ![t] = << >>]
  /\ cnt' = [cnt EXCEPT ![t] = 0]
  /\ res' = [res EXCEPT ![t] = NoRes]
  /\ probes' = [probes EXCEPT ![t] = 0]
  /\ UNCHANGED value

Next ==
  \/ \E min \in Bounds, max \in Bounds : ApplyBytes(1, min, max)
  \/ \E min \in Bounds, max \in Bounds : ApplyChars(1, min, max)
  \/ \E min \in Bounds, max \in Bounds : ApplySimple(1, min, max)
  \/ Drop(1)

\* one caller, each call of apply a single step
Spec == Init /\ [][Next]_vars

(***************************************************************************)
(* Two callers on the same borrowed value, each call taken apart into the  *)
(* steps of its validate_*: the match on the Option layers, the            *)
(* measurement, the range check.                                           *)
(***************************************************************************)
ConcTypes == {"String", "Vec<char>"}

ConcValues == {v \in Values : v.ty \in ConcTypes /\ Len(v.data) <= 2}

ConcBounds == {0, 2, UsizeMax}

InitConc == value \in ConcValues /\ Idle

\* apply: the call of validate_* on &value
Enter(t, pol, min, max) ==
  /\ pc[t] = "idle"
  /\ Implements(pol, value.ty)
  /\ pc' = [pc EXCEPT ![t] = "validate"]
  /\ call' = [call EXCEPT ![t] = [pol |-> pol, min |-> min, max |-> max]]
  /\ cursor' = [cursor EXCEPT ![t] = value.wrap]
  /\ UNCHANGED <<value, cnt, res, probes>>

\* the Some arm calling validate_* on self again instead of on v
MatchSomeSelf(t) ==
  /\ pc[t] = "validate"
  /\ cursor[t] # << >> /\ Head(cursor[t]) = "Some"
  /\ UNCHANGED vars

\* Some(v) => v.validate_*(min, max)
MatchSome(t) ==
  /\ pc[t] = "validate"
  /\ cursor[t] # << >> /\ Head(cursor[t]) = "Some"
  /\ cursor' = [cursor EXCEPT ![t] = Tail(@)]
  /\ UNCHANGED <<value, pc, call, cnt, res, probes>>

\* None => Ok(())
MatchNone(t) ==
  /\ pc[t] = "validate"
  /\ cursor[t] # << >> /\ Head(cursor[t]) = "None"
  /\ pc' = [pc EXCEPT ![t] = "done"]
  /\ res' = [res EXCEPT ![t] = Ok]
  /\ UNCHANGED <<value, call, cursor, cnt, probes>>

\* a measurement kept in a shared memo: the count another call in flight took
MeasuredMemo(t) ==
  IF \E u \in Callers \ {t} : pc[u] = "check"
  THEN cnt[CHOOSE u \in Callers \ {t} : pc[u] = "check"]
  ELSE MeasureOf(call[t].pol, value)

\* the count caller t's measurement reads off the value
Measured(t) == MeasureOf(call[t].pol, value)

\* self.num_bytes() / self.num_chars() / self.length() / self.len()
Measure(t) ==
  /\ pc[t] = "validate"
  /\ cursor[t] = << >>
  /\ pc' = [pc EXCEPT ![t] = "check"]
  /\ cnt' = [cnt EXCEPT ![t] = Measured(t)]
  /\ probes' = [probes EXCEPT ![t] = @ + 1]
  /\ UNCHANGED <<value, call, cursor, res>>

\* super::check_len(count, min, max)
CheckLen(t) ==
  /\ pc[t] = "check"
  /\ pc' = [pc EXCEPT ![t] = "done"]
  /\ res' = [res EXCEPT ![t] = check_len(cnt[t], call[t].min, call[t].max)]
  /\ UNCHANGED <<value, call, cursor, cnt, probes>>

Step(t) == MatchSome(t) \/ MatchNone(t) \/ Measure(t) \/ CheckLen(t)

NextConc ==
  \E t \in Callers :
    \/ \E pol \in Policies, min \in ConcBounds, max \in ConcBounds : Enter(t, pol, min, max)
    \/ MatchSome(t)
    \/ MatchNone(t)
    \/ Measure(t)
    \/ CheckLen(t)
    \/ Drop(t)

\* a call that has started is not starved: it runs on its caller's own thread
SpecConc == InitConc /\ [][NextConc]_vars /\ \A t \in Callers : WF_vars(Step(t))

(***************************************************************************)
(* Properties.                                                             *)
(***************************************************************************)
Bare(v) == v.wrap = << >>

Text(v) == v.ty \in TextTypes

Done(t) == pc[t] = "done"

InRange(c, min, max) == min <= c /\ c <= max

\* the encoded width a UTF-8 leading code unit announces
LeadWidth(b) == IF b < 128 THEN 1 ELSE IF b < 224 THEN 2 ELSE IF b < 240 THEN 3 ELSE 4

RECURSIVE Widths(_)
\* the encoded widths of the scalars of a text, read off its leading code units
Widths(bs) ==
  IF bs = << >> THEN << >>
  ELSE <<LeadWidth(Head(bs))>> \o Widths(SubSeq(bs, LeadWidth(Head(bs)) + 1, Len(bs)))

RECURSIVE Sum(_)
Sum(ws) == IF ws = << >> THEN 0 ELSE Head(ws) + Sum(Tail(ws))

\* C1: a check of a non-optional value whose measured length is c succeeds
\* if and only if min <= c and c <= max, both ends inclusive.
C1_InclusiveRange ==
  (Done(1) /\ Bare(value)) =>
    (res[1].ok <=> InRange(MeasureOf(call[1].pol, value), call[1].min, call[1].max))

\* a count on the lower end of a proper range passes
C1_Witness ==
  /\ Done(1) /\ Bare(value)
  /\ MeasureOf(call[1].pol, value) = call[1].min
  /\ 0 < call[1].min /\ call[1].min < call[1].max
  /\ res[1] = Ok

\* C2: under every policy and every bound, an absent optional validates
\* successfully and nothing is measured.
C2_AbsenceExemption ==
  (Done(1) /\ Absent(value)) => (res[1] = Ok /\ probes[1] = 0)

\* None under the bound (1, 1)
C2_Witness ==
  /\ Done(1) /\ Absent(value)
  /\ call[1].pol = "simple" /\ call[1].min = 1 /\ call[1].max = 1
  /\ res[1] = Ok

\* C3: the outcome of validating Some(v) is exactly the outcome of
\* validating v under the same policy and the same bound.
C3_PresenceDelegation ==
  (Done(1) /\ ~Bare(value) /\ Head(value.wrap) = "Some") =>
    res[1] = Validate(call[1].pol, [value EXCEPT !.wrap = Tail(@)],
                      call[1].min, call[1].max).out

\* Some(v) fails with v's failure
C3_Witness ==
  /\ Done(1) /\ ~Bare(value) /\ Head(value.wrap) = "Some"
  /\ call[1].pol = "chars" /\ call[1].min < call[1].max
  /\ ~res[1].ok

\* C4: under a bound with min > max every non-optional value, whatever its
\* count, is rejected with a failure.
C4_EmptyRange ==
  (Done(1) /\ Bare(value) /\ call[1].min > call[1].max) =>
    (~res[1].ok /\ res[1] # NoRes)

\* an empty array under an empty range
C4_Witness ==
  /\ Done(1) /\ Bare(value) /\ SimpleArray(value.ty) /\ value.data = << >>
  /\ call[1].min > call[1].max
  /\ ~res[1].ok

\* C5, as stated: on a text value the scalar policy never fails where the
\* byte policy succeeds.
C5_Original ==
  (Done(1) /\ Text(value) /\ ~Absent(value) /\ call[1].pol = "chars"
     /\ validate_num_bytes(value, call[1].min, call[1].max).out.ok)
    => res[1].ok

\* C5, amended: on a text value the scalar policy never fails as longer
\* than max where the byte policy succeeds; where it fails and the byte
\* policy succeeds, the scalar count is below min.
C5_Amended ==
  (Done(1) /\ Text(value) /\ ~Absent(value) /\ call[1].pol = "chars" /\ ~res[1].ok
     /\ validate_num_bytes(value, call[1].min, call[1].max).out.ok)
    => /\ Len(Widths(value.data)) < call[1].min
       /\ Len(Widths(value.data)) <= call[1].max

\* the scalar policy fails and the byte policy succeeds
C5_Witness ==
  /\ Done(1) /\ Text(value) /\ ~Absent(value) /\ call[1].pol = "chars"
  /\ ~res[1].ok
  /\ validate_num_bytes(value, call[1].min, call[1].max).out.ok

\* C6: on a text the byte policy counts the encoded widths (1 to 4) of the
\* scalars and the scalar policy counts the scalars, so the scalar count
\* is at most the byte count, smaller exactly when some scalar is
\* multi-unit, and then some bound fails the byte policy and passes the
\* scalar policy.
C6_BytesVersusScalars ==
  (Done(1) /\ Text(value) /\ Bare(value)) =>
    LET ws == Widths(value.data)
        nb == Sum(ws)
        nc == Len(ws)
    IN /\ \A i \in 1..Len(ws) : ws[i] \in 1..4
       /\ call[1].pol = "bytes" => (res[1].ok <=> InRange(nb, call[1].min, call[1].max))
       /\ call[1].pol = "chars" => (res[1].ok <=> InRange(nc, call[1].min, call[1].max))
       /\ nc <= nb
       /\ (nb > nc) <=> (\E i \in 1..Len(ws) : ws[i] > 1)
       /\ (nb > nc) =>
            \E a \in Bounds, b \in Bounds :
              /\ ~validate_num_bytes(value, a, b).out.ok
              /\ validate_num_chars(value, a, b).out.ok

\* one 4-unit scalar fails the byte policy under (1, 3)
C6_Witness ==
  /\ Done(1) /\ Bare(value) /\ value.ty = "String"
  /\ value.data = Utf8(<<128512>>)
  /\ call[1] = [pol |-> "bytes", min |-> 1, max |-> 3]
  /\ ~res[1].ok
  /\ validate_num_bytes(value, 1, 4).out.ok
  /\ validate_num_chars(value, 1, 1).out.ok

\* C7: on a text the simple policy gives the byte policy's outcome, and
\* not the scalar policy's wherever the bound separates the two counts.
C7_SimpleIsBytes ==
  (Done(1) /\ Text(value) /\ call[1].pol = "simple") =>
    /\ res[1] = validate_num_bytes(value, call[1].min, call[1].max).out
    /\ (/\ ~Absent(value)
        /\ InRange(Len(value.data), call[1].min, call[1].max)
             # InRange(Len(Widths(value.data)), call[1].min, call[1].max))
         => res[1].ok # validate_num_chars(value, call[1].min, call[1].max).out.ok

\* a text whose byte count passes and whose scalar count does not
C7_Witness ==
  /\ Done(1) /\ Text(value) /\ ~Absent(value) /\ call[1].pol = "simple"
  /\ res[1].ok
  /\ ~validate_num_chars(value, call[1].min, call[1].max).out.ok

\* C8: on a collection, slice or array of n elements the simple policy
\* measures n, on a sequence of chars the scalar policy measures n, and
\* where both apply they give the same outcome.
C8_SequenceConsistency ==
  (Done(1) /\ ~Text(value) /\ ~Absent(value)) =>
    LET n == Len(value.data)
    IN /\ call[1].pol \in {"simple", "chars"} =>
            (res[1].ok <=> InRange(n, call[1].min, call[1].max))
       /\ (Implements("chars", value.ty) /\ Implements("simple", value.ty)) =>
            validate_num_chars(value, call[1].min, call[1].max).out
              = validate_length(value, call[1].min, call[1].max).out

\* five chars pass (5, 5) under the scalar policy and fail (0, 4) under
\* the simple one
C8_Witness ==
  /\ Done(1) /\ value.ty = "Vec<char>" /\ Bare(value) /\ Len(value.data) = 5
  /\ call[1] = [pol |-> "chars", min |-> 5, max |-> 5]
  /\ res[1] = Ok
  /\ ~validate_length(value, 0, 4).out.ok

\* a success, or a range violation of the call's own bound by a usize count
IsOutcome(r, c) ==
  \/ r = Ok
  \/ /\ DOMAIN r = {"ok", "len", "min", "max"}
     /\ ~r.ok
     /\ r.len \in 0..UsizeMax
     /\ r.min = c.min /\ r.max = c.max
     /\ r.len < r.min \/ r.len > r.max

\* C9: every check that starts ends, and ends in a success or a range
\* violation, whatever the value and the bound.
C9_Total ==
  /\ [](\A t \in Callers : Done(t) => IsOutcome(res[t], call[t]))
  /\ \A t \in Callers : (pc[t] \in {"validate", "check"}) ~> Done(t)

\* an empty value rejected under the bound (usize::MAX, 0)
C9_Witness ==
  /\ Done(1) /\ Bare(value) /\ value.data = << >>
  /\ call[1].min = UsizeMax /\ call[1].max = 0
  /\ ~res[1].ok

\* C10: no check changes the value, and every check, however interleaved
\* with others on the same value, returns what it returns when run alone.
C10_Reentrant ==
  /\ [](\A t \in Callers :
          Done(t) => res[t] = Validate(call[t].pol, value, call[t].min, call[t].max).out)
  /\ [][value' = value]_vars

\* two callers done on the same value, under the same bound, with different
\* policies and different outcomes
C10_Witness ==
  /\ Done(1) /\ Done(2)
  /\ call[1].pol = "bytes" /\ call[2].pol = "chars"
  /\ call[1].min = call[2].min /\ call[1].max = call[2].max
  /\ res[1].ok /\ ~res[2].ok

====
